---------------------------- MODULE Spec2Model ----------------------------
(***************************************************************************)
(* WedprSecp256k1Recover (crypto/signature/secp256k1/src/lib.rs):          *)
(* sign, verify, generate_keypair and recover_public_key over the          *)
(* FISCO-BCOS 65-byte recoverable signature layout.                        *)
(*                                                                         *)
(* The four functions of lib.rs are translated statement by statement.     *)
(* The secp256k1 crate they call is an external collaborator.  It is       *)
(* modelled by an executable recoverable ECDSA over a small curve of the   *)
(* same shape as secp256k1 (y^2 = x^3 + 7 over a prime field, prime group  *)
(* order smaller than the field prime), with the crate's byte layouts:     *)
(* 32-byte big-endian scalars and coordinates, 64-byte compact (r,s),      *)
(* 65-byte uncompressed points.  Sign/recover round trips are therefore    *)
(* computed, not assumed.                                                  *)
(***************************************************************************)
EXTENDS Integers, Sequences, FiniteSets, TLC

(***************************************************************************)
(* Program constants of lib.rs.                                            *)
(***************************************************************************)
FISCO_BCOS_SIGNATURE_DATA_LENGTH == 65
FISCO_BCOS_SIGNATURE_END_INDEX == FISCO_BCOS_SIGNATURE_DATA_LENGTH - 1
\* generate_keypair: "if secret_key[0] > 15"
WEAK_KEY_THRESHOLD == 15

(***************************************************************************)
(* Sizes of the secp256k1 crate's byte types.                              *)
(***************************************************************************)
MESSAGE_SIZE == 32
SECRET_KEY_SIZE == 32
COMPACT_SIGNATURE_SIZE == 2 * MESSAGE_SIZE
UNCOMPRESSED_PUBLIC_KEY_SIZE == 2 * MESSAGE_SIZE + 1
\* tag byte of an uncompressed point
TAG_PUBKEY_UNCOMPRESSED == 4
BYTE_RANGE == 256

(***************************************************************************)
(* The small curve standing for secp256k1: y^2 = x^3 + 7 over GF(79), a    *)
(* group of prime order 67 generated by (6, 12).  As on secp256k1 the      *)
(* group order is below the field prime, so an x coordinate can exceed the *)
(* order (recovery ids 2 and 3 occur).                                     *)
(***************************************************************************)
FIELD_P == 79
CURVE_ORDER == 67
CURVE_B == 7
GENERATOR == <<6, 12>>
\* the point at infinity
INFINITY == <<>>

\* x mod m for a possibly negative x
Mod(x, m) == ((x % m) + m) % m

\* modular inverses, by table
InvP == [a \in 1..(FIELD_P - 1) |->
           CHOOSE b \in 1..(FIELD_P - 1) : (a * b) % FIELD_P = 1]
InvN == [a \in 1..(CURVE_ORDER - 1) |->
           CHOOSE b \in 1..(CURVE_ORDER - 1) : (a * b) % CURVE_ORDER = 1]

\* group law of the curve (affine coordinates)
PointAdd(A, B) ==
  IF A = INFINITY THEN B
  ELSE IF B = INFINITY THEN A
  ELSE IF A[1] = B[1] /\ (A[2] + B[2]) % FIELD_P = 0 THEN INFINITY
  ELSE LET l == IF A = B
                THEN (3 * A[1] * A[1] * InvP[(2 * A[2]) % FIELD_P]) % FIELD_P
                ELSE (Mod(B[2] - A[2], FIELD_P)
                       * InvP[Mod(B[1] - A[1], FIELD_P)]) % FIELD_P
           x3 == Mod(l * l - A[1] - B[1], FIELD_P)
       IN  <<x3, Mod(l * Mod(A[1] - x3, FIELD_P) - A[2], FIELD_P)>>

\* scalar multiplication, double and add
RECURSIVE ScalarMul(_, _)
ScalarMul(k, A) ==
  IF k = 0 THEN INFINITY
  ELSE LET h == ScalarMul(k \div 2, A)
           d == PointAdd(h, h)
       IN  IF k % 2 = 1 THEN PointAdd(d, A) ELSE d

\* multiples of the generator, by table
MulG == [k \in 0..(CURVE_ORDER - 1) |-> ScalarMul(k, GENERATOR)]

\* the two square roots of x^3 + 7, if any: the point with abscissa x and
\* the given parity of y (secp256k1_ge_set_xo_var)
PointsAtX(x, odd) ==
  {pt \in {<<x, y>> : y \in 0..(FIELD_P - 1)} :
      /\ (pt[2] * pt[2]) % FIELD_P = (x * x * x + CURVE_B) % FIELD_P
      /\ pt[2] % 2 = odd}

(***************************************************************************)
(* Byte strings.                                                           *)
(***************************************************************************)
\* 256^e, saturated at m: the result is m exactly when 256^e >= m
RECURSIVE PowSat(_, _)
PowSat(e, m) ==
  IF e = 0 THEN (IF 1 >= m THEN m ELSE 1)
  ELSE LET h == PowSat(e \div 2, m)
           sq == IF h * h >= m THEN m ELSE h * h
       IN  IF e % 2 = 0 THEN sq
           ELSE IF sq * BYTE_RANGE >= m THEN m ELSE sq * BYTE_RANGE

\* big-endian value of bytes lo..hi of b, saturated at m: the result is m
\* exactly when the value is >= m (the crate's scalar overflow test).
\* The range is halved at each step: value = left * 256^|right| + right.
RECURSIVE BESatRange(_, _, _, _)
BESatRange(b, lo, hi, m) ==
  IF lo > hi THEN 0
  ELSE IF lo = hi THEN (IF b[lo] >= m THEN m ELSE b[lo])
  ELSE LET mid == (lo + hi) \div 2
           left == BESatRange(b, lo, mid, m)
           right == BESatRange(b, mid + 1, hi, m)
           shift == PowSat(hi - mid, m)
       IN  IF left = 0 THEN right
           ELSE IF shift = m \/ left = m \/ right = m THEN m
           ELSE IF left * shift + right >= m THEN m
           ELSE left * shift + right

BESat(b, m) == BESatRange(b, 1, Len(b), m)

\* 256^e modulo m
RECURSIVE PowMod(_, _)
PowMod(e, m) ==
  IF e = 0 THEN 1 % m
  ELSE LET h == PowMod(e \div 2, m)
       IN  IF e % 2 = 0 THEN (h * h) % m
           ELSE (((h * h) % m) * BYTE_RANGE) % m

\* big-endian value of bytes lo..hi of b, reduced modulo m
RECURSIVE BEModRange(_, _, _, _)
BEModRange(b, lo, hi, m) ==
  IF lo > hi THEN 0
  ELSE IF lo = hi THEN b[lo] % m
  ELSE LET mid == (lo + hi) \div 2
       IN  (BEModRange(b, lo, mid, m) * PowMod(hi - mid, m)
              + BEModRange(b, mid + 1, hi, m)) % m

BEMod(b, m) == BEModRange(b, 1, Len(b), m)

\* v \div 256^e
RECURSIVE ShiftRight(_, _)
ShiftRight(v, e) == IF e = 0 \/ v = 0 THEN v ELSE ShiftRight(v \div BYTE_RANGE, e - 1)

\* big-endian encoding of v on len bytes: byte i is (v \div 256^(len-i)) % 256
BEEncode(v, len) ==
  [i \in 1..len |-> ShiftRight(v, len - i) % BYTE_RANGE]

Zeros(n) == [i \in 1..n |-> 0]


(***************************************************************************)
(* Results.  Ok(v) and Err(e, msg) are Rust's Result<Vec<u8>, WedprError>, *)
(* msg being the line the call hands to wedpr_println! before it returns;  *)
(* Panic is the abort of a bounds-checked slice access.                    *)
(***************************************************************************)
Ok(v) == [kind |-> "Ok", err |-> "None", val |-> v, log |-> ""]
Err(e, msg) == [kind |-> "Err", err |-> e, val |-> <<>>, log |-> msg]
Panic == [kind |-> "Panic", err |-> "None", val |-> <<>>, log |-> ""]
FormatError == "FormatError"
DecodeError == "DecodeError"

(***************************************************************************)
(* The secp256k1 crate, as lib.rs uses it.                                 *)
(***************************************************************************)
\* SecretKey::from_slice: 32 bytes naming a nonzero scalar of the group.
\* The group has CURVE_ORDER elements, so a key acts through its residue;
\* residue 0 is the crate's out-of-range key.
SecretKeyFromSlice(b) ==
  IF Len(b) = SECRET_KEY_SIZE /\ BEMod(b, CURVE_ORDER) # 0
  THEN [ok |-> TRUE, scalar |-> BEMod(b, CURVE_ORDER)]
  ELSE [ok |-> FALSE, scalar |-> 0]

\* Message::from_slice: exactly 32 bytes; the digest enters the arithmetic
\* reduced modulo the group order.
MessageFromSlice(b) ==
  IF Len(b) = MESSAGE_SIZE
  THEN [ok |-> TRUE, scalar |-> BEMod(b, CURVE_ORDER)]
  ELSE [ok |-> FALSE, scalar |-> 0]

\* PublicKey::from_secret_key
PublicKeyFromScalar(d) == MulG[d]

\* PublicKey::serialize_uncompressed: 0x04 || X || Y
SerializeUncompressed(pt) ==
  <<TAG_PUBKEY_UNCOMPRESSED>> \o BEEncode(pt[1], MESSAGE_SIZE)
                              \o BEEncode(pt[2], MESSAGE_SIZE)

\* one attempt of secp256k1_ecdsa_sig_sign with nonce k: r = (kG).x mod n,
\* s = k^-1 (z + r d), recovery id = 2*[x >= n] + [y odd], and the low-s
\* normalisation that flips the parity bit.  The attempt fails when r or s
\* is zero.
EcdsaSigSign(z, d, k) ==
  LET R == MulG[k]
      r == R[1] % CURVE_ORDER
      recid0 == (IF R[1] >= CURVE_ORDER THEN 2 ELSE 0) + (R[2] % 2)
      s0 == (InvN[k] * ((z + r * d) % CURVE_ORDER)) % CURVE_ORDER
      high == s0 > CURVE_ORDER \div 2
  IN  [ok |-> r # 0 /\ s0 # 0,
       r |-> r,
       s |-> IF high THEN CURVE_ORDER - s0 ELSE s0,
       recid |-> IF high
                 THEN (IF recid0 % 2 = 0 THEN recid0 + 1 ELSE recid0 - 1)
                 ELSE recid0]

\* RecoverableSignature::serialize_compact: (recid, r || s)
SerializeCompact(sig) ==
  [recid |-> sig.recid,
   bytes |-> BEEncode(sig.r, MESSAGE_SIZE) \o BEEncode(sig.s, MESSAGE_SIZE)]

\* RecoveryId::from_i32: 0..=3
RecoveryIdFromI32(id) ==
  IF id >= 0 /\ id <= 3 THEN [ok |-> TRUE, id |-> id]
  ELSE [ok |-> FALSE, id |-> 0]

\* RecoverableSignature::from_compact: 64 bytes, r and s below the order
FromCompact(data, recid) ==
  IF Len(data) # COMPACT_SIGNATURE_SIZE THEN [ok |-> FALSE, r |-> 0, s |-> 0, recid |-> recid]
  ELSE LET r == BESat(SubSeq(data, 1, MESSAGE_SIZE), CURVE_ORDER)
           s == BESat(SubSeq(data, MESSAGE_SIZE + 1, COMPACT_SIGNATURE_SIZE), CURVE_ORDER)
       IN  IF r = CURVE_ORDER \/ s = CURVE_ORDER
           THEN [ok |-> FALSE, r |-> 0, s |-> 0, recid |-> recid]
           ELSE [ok |-> TRUE, r |-> r, s |-> s, recid |-> recid]

\* Secp256k1::recover (secp256k1_ecdsa_sig_recover):
\* Q = r^-1 (s R - z G), R the point with abscissa r (+ n when recid & 2)
\* and the parity recid & 1
Recover(z, sig) ==
  LET fail == [ok |-> FALSE, point |-> INFINITY]
  IN  IF sig.r = 0 \/ sig.s = 0 THEN fail
      ELSE IF sig.recid >= 2 /\ sig.r >= FIELD_P - CURVE_ORDER THEN fail
      ELSE LET fx == IF sig.recid >= 2 THEN sig.r + CURVE_ORDER ELSE sig.r
               cand == PointsAtX(fx, sig.recid % 2)
           IN  IF cand = {} THEN fail
               ELSE LET X == CHOOSE pt \in cand : TRUE
                        rn == InvN[sig.r]
                        u1 == Mod(0 - rn * z, CURVE_ORDER)
                        u2 == (rn * sig.s) % CURVE_ORDER
                        Q == PointAdd(MulG[u1], ScalarMul(u2, X))
                    IN  IF Q = INFINITY THEN fail
                        ELSE [ok |-> TRUE, point |-> Q]

\* Rust's "as u8" of an i32 and "as i32" of a u8
AsU8(i) == Mod(i, BYTE_RANGE)
AsI32(b) == b

(***************************************************************************)
(* lib.rs: impl Signature for WedprSecp256k1Recover.                       *)
(***************************************************************************)
\* sign with the recovery id pushed as 27 + recid (the Ethereum "v")
sign_v27(private_key, msg_hash, k) ==
  LET secret_key == SecretKeyFromSlice(private_key)
      msg_hash_obj == MessageFromSlice(msg_hash)
  IN  IF ~secret_key.ok
      THEN Err(FormatError, "Parsing private key failed")
      ELSE IF ~msg_hash_obj.ok
      THEN Err(FormatError, "Parsing message hash failed")
      ELSE LET compact == SerializeCompact(
                 EcdsaSigSign(msg_hash_obj.scalar, secret_key.scalar, k))
           IN  Ok(Append(compact.bytes, AsU8(27 + compact.recid)))

\* sign with the recovery id put in front of the compact signature
sign_recid_first(private_key, msg_hash, k) ==
  LET secret_key == SecretKeyFromSlice(private_key)
      msg_hash_obj == MessageFromSlice(msg_hash)
  IN  IF ~secret_key.ok
      THEN Err(FormatError, "Parsing private key failed")
      ELSE IF ~msg_hash_obj.ok
      THEN Err(FormatError, "Parsing message hash failed")
      ELSE LET compact == SerializeCompact(
                 EcdsaSigSign(msg_hash_obj.scalar, secret_key.scalar, k))
           IN  Ok(<<AsU8(compact.recid)>> \o compact.bytes)

\* sign reporting a digest that does not parse as recover_public_key does
sign_decode_error(private_key, msg_hash, k) ==
  LET secret_key == SecretKeyFromSlice(private_key)
      msg_hash_obj == MessageFromSlice(msg_hash)
  IN  IF ~secret_key.ok
      THEN Err(FormatError, "Parsing private key failed")
      ELSE IF ~msg_hash_obj.ok
      THEN Err(DecodeError, "Parsing message hash failed")
      ELSE LET compact == SerializeCompact(
                 EcdsaSigSign(msg_hash_obj.scalar, secret_key.scalar, k))
           IN  Ok(Append(compact.bytes, AsU8(compact.recid)))

\* sign(private_key, msg_hash).  k is the nonce on which the crate's
\* sign_recoverable settles (its nonce function retries until the attempt
\* succeeds, so sign_recoverable itself cannot fail).
sign(private_key, msg_hash, k) ==
  LET secret_key == SecretKeyFromSlice(private_key)
      msg_hash_obj == MessageFromSlice(msg_hash)
  IN  IF ~secret_key.ok
      THEN Err(FormatError, "Parsing private key failed")
      ELSE IF ~msg_hash_obj.ok
      THEN Err(FormatError, "Parsing message hash failed")
      ELSE LET signature_obj ==
                 EcdsaSigSign(msg_hash_obj.scalar, secret_key.scalar, k)
               compact == SerializeCompact(signature_obj)
               \* signature_output.push(recid.to_i32() as u8)
               signature_output == Append(compact.bytes, AsU8(compact.recid))
           IN  Ok(signature_output)

\* the tail of recover_public_key once the recovery id is parsed: the first
\* 64 bytes are the signature data
RecoverBody(msg_hash_obj, signature, rec_id) ==
  LET signature_byte == SubSeq(signature, 1, FISCO_BCOS_SIGNATURE_END_INDEX)
      get_sign_final == FromCompact(signature_byte, rec_id.id)
      recovered_public_key == Recover(msg_hash_obj.scalar, get_sign_final)
  IN  IF ~get_sign_final.ok
      THEN Err(FormatError, "Signature from_compact failed")
      ELSE IF ~recovered_public_key.ok
      THEN Err(FormatError, "Signature recover failed")
      ELSE Ok(SerializeUncompressed(recovered_public_key.point))

\* recover_public_key reading the recovery id one byte early
recover_recid_index(msg_hash, signature) ==
  LET msg_hash_obj == MessageFromSlice(msg_hash)
  IN  IF ~msg_hash_obj.ok
      THEN Err(DecodeError, "Parsing message hash failed")
      ELSE IF Len(signature) # FISCO_BCOS_SIGNATURE_DATA_LENGTH
      THEN Err(DecodeError, "Signature length is not 65")
      ELSE LET rec_id == RecoveryIdFromI32(
                           AsI32(signature[FISCO_BCOS_SIGNATURE_END_INDEX]))
           IN  IF ~rec_id.ok
               THEN Err(DecodeError, "Parsing RecoveryId failed")
               ELSE RecoverBody(msg_hash_obj, signature, rec_id)

\* recover_public_key without the length test
recover_no_length_check(msg_hash, signature) ==
  LET msg_hash_obj == MessageFromSlice(msg_hash)
  IN  IF ~msg_hash_obj.ok
      THEN Err(DecodeError, "Parsing message hash failed")
      ELSE IF FISCO_BCOS_SIGNATURE_END_INDEX >= Len(signature) THEN Panic
      ELSE LET rec_id == RecoveryIdFromI32(
                           AsI32(signature[FISCO_BCOS_SIGNATURE_END_INDEX + 1]))
           IN  IF ~rec_id.ok
               THEN Err(DecodeError, "Parsing RecoveryId failed")
               ELSE RecoverBody(msg_hash_obj, signature, rec_id)

\* recover_public_key reporting a bad recovery id as a FormatError
recover_recid_format_error(msg_hash, signature) ==
  LET msg_hash_obj == MessageFromSlice(msg_hash)
  IN  IF ~msg_hash_obj.ok
      THEN Err(DecodeError, "Parsing message hash failed")
      ELSE IF Len(signature) # FISCO_BCOS_SIGNATURE_DATA_LENGTH
      THEN Err(DecodeError, "Signature length is not 65")
      ELSE LET rec_id == RecoveryIdFromI32(
                           AsI32(signature[FISCO_BCOS_SIGNATURE_END_INDEX + 1]))
           IN  IF ~rec_id.ok
               THEN Err(FormatError, "Parsing RecoveryId failed")
               ELSE RecoverBody(msg_hash_obj, signature, rec_id)

\* recover_public_key(msg_hash, signature).  Rust indexes from 0, TLA+
\* sequences from 1; a slice access past the end aborts.
recover_public_key(msg_hash, signature) ==
  LET msg_hash_obj == MessageFromSlice(msg_hash)
  IN  IF ~msg_hash_obj.ok
      THEN Err(DecodeError, "Parsing message hash failed")
      ELSE IF Len(signature) # FISCO_BCOS_SIGNATURE_DATA_LENGTH
      THEN Err(DecodeError, "Signature length is not 65")
      ELSE IF FISCO_BCOS_SIGNATURE_END_INDEX >= Len(signature) THEN Panic
      ELSE LET rec_id == RecoveryIdFromI32(
                           AsI32(signature[FISCO_BCOS_SIGNATURE_END_INDEX + 1]))
           IN  IF ~rec_id.ok
               THEN Err(DecodeError, "Parsing RecoveryId failed")
               ELSE RecoverBody(msg_hash_obj, signature, rec_id)

\* what verify hands back: a boolean and the line it printed, or the abort
\* of the call
Ret(b, msg) == [kind |-> "Ret", val |-> b, log |-> msg]
Abort == [kind |-> "Panic", val |-> FALSE, log |-> ""]

\* verify without the comparison of the recovered key
verify_no_compare(public_key, msg_hash, signature) ==
  LET recovered == recover_public_key(msg_hash, signature)
  IN  IF recovered.kind = "Panic" THEN Abort
      ELSE IF recovered.kind = "Err" THEN Ret(FALSE, recovered.log)
      ELSE Ret(TRUE, "")

\* verify with eq for ne
verify_eq(public_key, msg_hash, signature) ==
  LET recovered == recover_public_key(msg_hash, signature)
  IN  IF recovered.kind = "Panic" THEN Abort
      ELSE IF recovered.kind = "Err" THEN Ret(FALSE, recovered.log)
      ELSE IF recovered.val = public_key
      THEN Ret(FALSE, "Matching signature public key failed")
      ELSE Ret(TRUE, "")

\* verify(public_key, msg_hash, signature)
verify(public_key, msg_hash, signature) ==
  LET recovered == recover_public_key(msg_hash, signature)
  IN  IF recovered.kind = "Panic" THEN Abort
      ELSE IF recovered.kind = "Err" THEN Ret(FALSE, recovered.log)
      ELSE IF recovered.val # public_key
      THEN Ret(FALSE, "Matching signature public key failed")
      ELSE Ret(TRUE, "")

\* generate_keypair with >= for >
KeepsDraw_ge(secret_key) == secret_key[1] >= WEAK_KEY_THRESHOLD

\* generate_keypair: "if secret_key[0] > 15" keeps the draw
KeepsDraw(secret_key) == secret_key[1] > WEAK_KEY_THRESHOLD

\* the pair generate_keypair returns for a kept draw
ReturnedPair(d) == [pk |-> SerializeUncompressed(d.public_key),
                    sk |-> d.secret_key]

(***************************************************************************)
(* Bounds of the model and the inputs drawn within them.                   *)
(***************************************************************************)
\* key pairs a client holds at once
MaxKeys == 2
\* low bytes of the digests
MaxDigestLow == 1
\* nonces the crate's nonce function may settle on: 1..MaxNonce
MaxNonce == 4

\* a 32-byte key with first byte b0 and last byte 1
KeyBytes(b0) == <<b0>> \o Zeros(SECRET_KEY_SIZE - 2) \o <<1>>

\* first bytes on both sides of the weak-key threshold
FirstBytes == {0, WEAK_KEY_THRESHOLD, WEAK_KEY_THRESHOLD + 1,
               BYTE_RANGE \div 2, BYTE_RANGE - 1}

\* what SECP256K1_ALL.generate_keypair(&mut rng) may yield: valid keys
RandomKeys ==
  {b \in {KeyBytes(b0) : b0 \in FirstBytes} : SecretKeyFromSlice(b).ok}

\* private keys that do not parse: empty, short, long, zero, residue zero
BadKeys == {<<>>, Zeros(SECRET_KEY_SIZE - 1), Zeros(SECRET_KEY_SIZE + 1),
            Zeros(SECRET_KEY_SIZE),
            Zeros(SECRET_KEY_SIZE - 1) \o <<CURVE_ORDER>>}

GoodDigests ==
  {Zeros(MESSAGE_SIZE), [i \in 1..MESSAGE_SIZE |-> BYTE_RANGE - 1]}
    \cup {Zeros(MESSAGE_SIZE - 1) \o <<v>> : v \in 1..MaxDigestLow}
BadDigests == {Zeros(MESSAGE_SIZE - 1), Zeros(MESSAGE_SIZE + 1)}
Digests == GoodDigests \cup BadDigests

NonceSpace == 1..MaxNonce

ReplaceAt(s, i, v) == [s EXCEPT ![i] = v]
FlipLow(s, i) == [s EXCEPT ![i] = IF s[i] % 2 = 0 THEN s[i] + 1 ELSE s[i] - 1]

\* a 65-byte signature and what an adversary makes of it
SigVariants(sig) ==
  {sig}
    \cup {ReplaceAt(sig, FISCO_BCOS_SIGNATURE_DATA_LENGTH, v) :
            v \in {0, 1, 2, 3, 4, BYTE_RANGE - 1}}
    \cup {<<>>, <<sig[1]>>, SubSeq(sig, 1, FISCO_BCOS_SIGNATURE_END_INDEX),
          Append(sig, 0), Zeros(1000)}
    \cup {Zeros(MESSAGE_SIZE) \o SubSeq(sig, MESSAGE_SIZE + 1, Len(sig)),
          SubSeq(sig, 1, MESSAGE_SIZE) \o Zeros(MESSAGE_SIZE)
             \o <<sig[Len(sig)]>>,
          ReplaceAt(sig, MESSAGE_SIZE, CURVE_ORDER),
          ReplaceAt(sig, 1, 1),
          FlipLow(sig, MESSAGE_SIZE),
          FlipLow(sig, COMPACT_SIGNATURE_SIZE)}

(***************************************************************************)
(* State: one client thread calling the four operations.                   *)
(***************************************************************************)
VARIABLES
  pc,      \* position in generate_keypair: "idle", "loop" or "check"
  draw,    \* the (secret_key, public_key) of this loop iteration
  keys,    \* the key pairs generate_keypair has returned
  signed,  \* the last signature sign returned, with its arguments
  call     \* the call in progress or just returned: arguments and result
           \* (for generate_keypair: whether it has dropped a draw)

vars == <<pc, draw, keys, signed, call>>

NoDraw == [drawn |-> FALSE, secret_key |-> <<>>, public_key |-> INFINITY]
NoSigned == [made |-> FALSE, sk |-> <<>>, d |-> <<>>, res |-> Err("None", "")]
NoCall == [op |-> "none"]

Init ==
  /\ pc = "idle"
  /\ draw = NoDraw
  /\ keys = {}
  /\ signed = NoSigned
  /\ call = NoCall

\* generate_keypair is entered: let mut rng = rand::thread_rng(); loop {
GenerateKeypairCall ==
  /\ pc = "idle"
  /\ call = NoCall
  /\ Cardinality(keys) < MaxKeys
  /\ pc' = "loop"
  /\ draw' = NoDraw
  /\ call' = [op |-> "generate_keypair", rejected |-> FALSE]
  /\ UNCHANGED <<keys, signed>>

\* let (secret_key, public_key) = SECP256K1_ALL.generate_keypair(&mut rng)
GenerateKeypairDraw(sk) ==
  /\ pc = "loop"
  /\ draw' = [drawn |-> TRUE, secret_key |-> sk,
              public_key |-> PublicKeyFromScalar(SecretKeyFromSlice(sk).scalar)]
  /\ pc' = "check"
  /\ UNCHANGED <<keys, signed, call>>

\* if secret_key[0] > 15 { return (public_key..., secret_key...) }
GenerateKeypairReturn ==
  /\ pc = "check"
  /\ KeepsDraw(draw.secret_key)
  /\ keys' = keys \cup {ReturnedPair(draw)}
  /\ pc' = "idle"
  /\ draw' = NoDraw
  /\ UNCHANGED <<signed, call>>

\* generate_keypair drawing once, before the loop: a weak draw is tested
\* again and again
GenerateKeypairReject_noredraw ==
  /\ pc = "check"
  /\ ~KeepsDraw(draw.secret_key)
  /\ UNCHANGED vars

\* the weak draw is dropped and the loop goes round
GenerateKeypairReject ==
  /\ pc = "check"
  /\ ~KeepsDraw(draw.secret_key)
  /\ pc' = "loop"
  /\ draw' = NoDraw
  /\ call' = [call EXCEPT !.rejected = TRUE]
  /\ UNCHANGED <<keys, signed>>

\* the private keys a client signs with: its own and broken ones
ClientKeys == {kp.sk : kp \in keys} \cup BadKeys

Sign(sk, d, k) ==
  /\ pc = "idle"
  /\ call = NoCall
  /\ \/ ~SecretKeyFromSlice(sk).ok
     \/ ~MessageFromSlice(d).ok
     \/ EcdsaSigSign(MessageFromSlice(d).scalar,
                     SecretKeyFromSlice(sk).scalar, k).ok
  /\ signed' = IF sign(sk, d, k).kind = "Ok"
               THEN [made |-> TRUE, sk |-> sk, d |-> d, res |-> sign(sk, d, k)]
               ELSE signed
  /\ call' = [op |-> "sign", sk |-> sk, d |-> d, res |-> sign(sk, d, k)]
  /\ UNCHANGED <<pc, draw, keys>>

\* the public keys a client verifies against: its own and a broken one
ClientPublicKeys == {kp.pk : kp \in keys} \cup {<<>>}

\* the signatures a client submits: the last one signed, and variants
ClientSignatures ==
  SigVariants(IF signed.res.kind = "Ok" THEN signed.res.val
              ELSE Zeros(FISCO_BCOS_SIGNATURE_DATA_LENGTH))

Verify(pk, d, sig) ==
  /\ pc = "idle"
  /\ call = NoCall
  /\ call' = [op |-> "verify", pk |-> pk, d |-> d, sig |-> sig,
              res |-> verify(pk, d, sig)]
  /\ UNCHANGED <<pc, draw, keys, signed>>

RecoverPublicKey(d, sig) ==
  /\ pc = "idle"
  /\ call = NoCall
  /\ call' = [op |-> "recover_public_key", d |-> d, sig |-> sig,
              res |-> recover_public_key(d, sig)]
  /\ UNCHANGED <<pc, draw, keys, signed>>

\* the caller has its result and goes on to its next call
ResultTaken ==
  /\ pc = "idle"
  /\ call # NoCall
  /\ call' = NoCall
  /\ UNCHANGED <<pc, draw, keys, signed>>

Next ==
  \/ GenerateKeypairCall
  \/ \E sk \in RandomKeys : GenerateKeypairDraw(sk)
  \/ GenerateKeypairReturn
  \/ GenerateKeypairReject
  \/ \E sk \in ClientKeys, d \in Digests, k \in NonceSpace : Sign(sk, d, k)
  \/ \E pk \in ClientPublicKeys, d \in Digests, sig \in ClientSignatures :
        Verify(pk, d, sig)
  \/ \E d \in Digests, sig \in ClientSignatures : RecoverPublicKey(d, sig)
  \/ ResultTaken

Spec == Init /\ [][Next]_vars

\* the random source does not yield weak keys forever; the loop's own
\* steps are taken
FairSpec ==
  /\ Spec
  /\ WF_vars(GenerateKeypairReturn)
  /\ WF_vars(GenerateKeypairReject)
  /\ SF_vars(\E sk \in RandomKeys : KeepsDraw(sk) /\ GenerateKeypairDraw(sk))

(***************************************************************************)
(* Properties.                                                             *)
(***************************************************************************)
\* the call is verify(kp.pk, d, sign(kp.sk, d)) for the last signature
VerifiesSigned(kp) ==
  /\ call.op = "verify"
  /\ signed.made
  /\ signed.sk = kp.sk
  /\ call.d = signed.d
  /\ call.sig = signed.res.val

\* C1: for every key pair (pk, sk) returned by generate_keypair and every
\* 32-byte digest d, sign(sk, d) succeeds and verify(pk, d, sign(sk, d))
\* returns true.
C1_RoundTrip ==
  /\ (/\ call.op = "sign"
      /\ call.sk \in {kp.sk : kp \in keys}
      /\ Len(call.d) = MESSAGE_SIZE) => call.res.kind = "Ok"
  /\ \A kp \in keys :
       (VerifiesSigned(kp) /\ call.pk = kp.pk) => call.res = Ret(TRUE, "")

C1_Witness ==
  \E kp \in keys :
    /\ VerifiesSigned(kp)
    /\ call.pk = kp.pk
    /\ call.d = Zeros(MESSAGE_SIZE)
    /\ call.res.val = TRUE

\* C2: for every key pair (pk, sk) returned by generate_keypair and every
\* 32-byte digest d, recover_public_key(d, sign(sk, d)) succeeds and returns
\* exactly pk, the 65-byte uncompressed public key.
C2_RecoveryConsistency ==
  \A kp \in keys :
    (/\ call.op = "recover_public_key"
     /\ signed.made
     /\ signed.sk = kp.sk
     /\ call.d = signed.d
     /\ call.sig = signed.res.val)
      => /\ call.res = Ok(kp.pk)
         /\ Len(call.res.val) = UNCOMPRESSED_PUBLIC_KEY_SIZE
         /\ call.res.val[1] = TAG_PUBKEY_UNCOMPRESSED

C2_Witness ==
  \E kp \in keys :
    /\ call.op = "recover_public_key"
    /\ signed.made
    /\ signed.sk = kp.sk
    /\ call.d = signed.d
    /\ call.sig = signed.res.val
    /\ call.res = Ok(kp.pk)
    /\ call.sig[FISCO_BCOS_SIGNATURE_DATA_LENGTH] >= 2

\* C3: verify never fails: it returns true exactly when recover_public_key
\* on the same digest and signature succeeds with a result equal to the
\* public key byte for byte, and false on every DecodeError or FormatError.
C3_VerifyTotal ==
  call.op = "verify" =>
    LET rec == recover_public_key(call.d, call.sig)
    IN  /\ call.res.kind = "Ret"
        /\ call.res.val = (rec.kind = "Ok" /\ rec.val = call.pk)
        /\ rec.kind = "Err" =>
             (call.res.val = FALSE /\ rec.err \in {DecodeError, FormatError})

C3_Witness ==
  /\ call.op = "verify"
  /\ call.pk \in {kp.pk : kp \in keys}
  /\ recover_public_key(call.d, call.sig).kind = "Ok"
  /\ recover_public_key(call.d, call.sig).val # call.pk
  /\ call.res.val = FALSE

\* C4: for two distinct key pairs (pk1, sk1), (pk2, sk2) and a digest d for
\* which sign(sk1, d) succeeds, verify(pk2, d, sign(sk1, d)) returns false.
C4_WrongKeyRejection ==
  \A kp1 \in keys, kp2 \in keys :
    (/\ kp1 # kp2
     /\ VerifiesSigned(kp1)
     /\ call.pk = kp2.pk) => (call.res.kind = "Ret" /\ call.res.val = FALSE)

C4_Witness ==
  \E kp1 \in keys, kp2 \in keys :
    /\ kp1 # kp2
    /\ VerifiesSigned(kp1)
    /\ call.pk = kp2.pk
    /\ call.res.val = FALSE

\* C5: for every msg_hash and every signature whose length is not 65,
\* recover_public_key fails with DecodeError: no FormatError, no public key,
\* no abort on indexing byte 64.
C5_LengthEnforcement ==
  (/\ call.op = "recover_public_key"
   /\ Len(call.sig) # FISCO_BCOS_SIGNATURE_DATA_LENGTH)
    => (call.res.kind = "Err" /\ call.res.err = DecodeError)

C5_Witness ==
  /\ call.op = "recover_public_key"
  /\ Len(call.sig) = FISCO_BCOS_SIGNATURE_END_INDEX
  /\ Len(call.d) = MESSAGE_SIZE
  /\ call.res.err = DecodeError

\* C6: for a valid digest and a 65-byte signature, a byte 64 outside the
\* recovery-id range gives DecodeError whatever the first 64 bytes are; a
\* valid byte 64 with first 64 bytes that fail compact parsing or point
\* recovery gives FormatError.
C6_FailureClassification ==
  (/\ call.op = "recover_public_key"
   /\ MessageFromSlice(call.d).ok
   /\ Len(call.sig) = FISCO_BCOS_SIGNATURE_DATA_LENGTH)
    => LET rid == RecoveryIdFromI32(call.sig[FISCO_BCOS_SIGNATURE_DATA_LENGTH])
           body == FromCompact(
                     SubSeq(call.sig, 1, COMPACT_SIGNATURE_SIZE), rid.id)
           bodyFails ==
             \/ ~body.ok
             \/ ~Recover(MessageFromSlice(call.d).scalar, body).ok
       IN  /\ ~rid.ok =>
                call.res = Err(DecodeError, "Parsing RecoveryId failed")
           /\ (rid.ok /\ bodyFails) =>
                (call.res.kind = "Err" /\ call.res.err = FormatError)
           /\ (rid.ok /\ ~bodyFails) => call.res.kind = "Ok"

C6_Witness ==
  /\ call.op = "recover_public_key"
  /\ MessageFromSlice(call.d).ok
  /\ Len(call.sig) = FISCO_BCOS_SIGNATURE_DATA_LENGTH
  /\ RecoveryIdFromI32(call.sig[FISCO_BCOS_SIGNATURE_DATA_LENGTH]).ok
  /\ ~FromCompact(SubSeq(call.sig, 1, COMPACT_SIGNATURE_SIZE), 0).ok
  /\ call.res.err = FormatError

\* C7: when sign succeeds its output is exactly 65 bytes: bytes [0,64) are
\* the crate's compact (r,s) of the recoverable signature, byte 64 is its
\* recovery id as one unsigned byte in 0..3, which recover_public_key
\* accepts as a recovery id.
C7_SignatureLayout ==
  (call.op = "sign" /\ call.res.kind = "Ok")
    => LET out == call.res.val
           z == MessageFromSlice(call.d).scalar
           d == SecretKeyFromSlice(call.sk).scalar
       IN  /\ Len(out) = FISCO_BCOS_SIGNATURE_DATA_LENGTH
           /\ out[FISCO_BCOS_SIGNATURE_DATA_LENGTH] \in 0..3
           /\ RecoveryIdFromI32(
                AsI32(out[FISCO_BCOS_SIGNATURE_END_INDEX + 1])).ok
           /\ \E k \in NonceSpace :
                /\ EcdsaSigSign(z, d, k).ok
                /\ SerializeCompact(EcdsaSigSign(z, d, k)) =
                     [recid |-> out[FISCO_BCOS_SIGNATURE_DATA_LENGTH],
                      bytes |-> SubSeq(out, 1, COMPACT_SIGNATURE_SIZE)]

C7_Witness ==
  /\ call.op = "sign"
  /\ call.res.kind = "Ok"
  /\ Len(call.res.val) = FISCO_BCOS_SIGNATURE_DATA_LENGTH
  /\ call.res.val[FISCO_BCOS_SIGNATURE_DATA_LENGTH] = 3

\* C8: sign fails with FormatError (never DecodeError, never a signature)
\* whenever the private key does not parse as a scalar or the digest does
\* not parse; the private key is checked first (its failure is the one
\* reported when both fail); in every other case sign returns a signature.
C8_SignFailure ==
  call.op = "sign" =>
    IF ~SecretKeyFromSlice(call.sk).ok
    THEN call.res = Err(FormatError, "Parsing private key failed")
    ELSE IF ~MessageFromSlice(call.d).ok
    THEN call.res = Err(FormatError, "Parsing message hash failed")
    ELSE call.res.kind = "Ok"

C8_Witness ==
  /\ call.op = "sign"
  /\ ~SecretKeyFromSlice(call.sk).ok
  /\ ~MessageFromSlice(call.d).ok
  /\ call.res.err = FormatError

\* what C9 asks of the returned pairs
C9_KeysStrong ==
  \A kp \in keys :
    /\ Len(kp.sk) = SECRET_KEY_SIZE
    /\ kp.sk[1] > 15
    /\ Len(kp.pk) = UNCOMPRESSED_PUBLIC_KEY_SIZE
    /\ kp.pk = SerializeUncompressed(
                 PublicKeyFromScalar(SecretKeyFromSlice(kp.sk).scalar))

\* what C9 asks of one turn of the loop
C9_LoopStep ==
  pc = "check" =>
    IF draw.secret_key[1] \in 0..15
    THEN keys' = keys /\ pc' = "loop" /\ ~draw'.drawn
    ELSE /\ pc' = "idle"
         /\ keys' = keys \cup {[pk |-> SerializeUncompressed(draw.public_key),
                                sk |-> draw.secret_key]}

\* C9: every key pair generate_keypair returns has a 32-byte private key
\* with first byte > 15; a draw with first byte in [0,15] is discarded and a
\* fresh pair is drawn; the returned public key is the 65-byte uncompressed
\* key of the same draw as the returned private key.
C9_WeakKeyExclusion == []C9_KeysStrong /\ [][C9_LoopStep]_vars

C9_Witness ==
  /\ pc = "idle"
  /\ call.op = "generate_keypair"
  /\ call.rejected
  /\ \E kp \in keys : kp.sk[1] = WEAK_KEY_THRESHOLD + 1

\* C10: under fair draws the rejection loop of generate_keypair ends, and
\* it ends only by returning the pair of a draw that is not weak.
C10_Termination ==
  /\ (pc # "idle") ~> (pc = "idle")
  /\ [][(pc # "idle" /\ pc' = "idle")
          => /\ draw.drawn
             /\ draw.secret_key[1] > WEAK_KEY_THRESHOLD
             /\ ReturnedPair(draw) \in keys']_vars

C10_Witness ==
  /\ pc = "idle"
  /\ call.op = "generate_keypair"
  /\ call.rejected
  /\ Cardinality(keys) = MaxKeys

=============================================================================
